---- MODULE Spec2Model ----
(***************************************************************************)
(* Browser-side scripts of the mutation report viewer (mutest-ui and       *)
(* mutest-inspector): the Query class, openFile, openMutation and          *)
(* openQueryMutation, translated from the JavaScript sources.              *)
(*                                                                         *)
(* A JavaScript string is a sequence of characters; a character is a       *)
(* one-element TLA+ string.  Opaque delimiter-free words that only ever    *)
(* move as a whole (an element id, a file name, the literal "undefined")   *)
(* are written as one character.                                           *)
(***************************************************************************)
EXTENDS Integers, Sequences, FiniteSets

VARIABLES
    qs,        \* the text the Query was parsed from, NoText once setAttribute changed it
    query,     \* Query.query: the object built by Query.parser / setAttribute
    order,     \* history: keys of the Query in order of first insertion
    nsets,     \* history: number of setAttribute calls made on the Query
    str,       \* result of the last Query.toString(), NoStr when stale
    ret,       \* result of the last getAttribute / getBooleanAttribute call
    variant,   \* which generation of the scripts the page runs: "inspector" or "ui"
    page,      \* window.location.pathname: the file of the current document
    search,    \* window.location.search: "" or "?..."
    classList, \* classList of every tbody of the current document
    scrolled,  \* the element last scrolled into view
    opened,    \* URLs handed to window.open(url, '_self') by the current document
    console,   \* what the last handler logged
    thrown,    \* whether the last handler ended with an uncaught exception
    pc,        \* "load", "query", "ready" or "unloading"
    last,      \* history: the openMutation call of the last handler and what it
               \* found (NoCall when the last handler made none)
    loadedBy,  \* history: the openMutation call whose navigation loaded the document
    changer,   \* classList of the mutation switcher (the element with id changer)
    regionCls, \* classList of every child of changer-regions, by its id
    clicked,   \* history: the switcher click the last handler served (NoClick: none)
    scrollThrows, \* whether Element.scrollIntoView throws in this browser
    initLog,   \* history: the steps of the page-load pass of this document, in order
    tbody,     \* the tbody elements of the code table: classList and childNodes
    tableCls,  \* classList of the code table handed to collapse_and_show
    cpc,       \* "load" before collapse_and_show has run, "ready" after it
    expanded,  \* history: the tbodies whose expand button has been clicked
    rowCls,    \* classList of every search-mutation row, in document order
    searched,  \* history: the last search call, the classLists before it and how it ended
    tabs,      \* classList of the two tab buttons and the two tab panels of the FileTree
    shown,     \* history: the tab the last show...Tab call chose
    traces,    \* content of the traces tab
    fetches,   \* show-trace click handlers suspended at an await
    requested, \* history: the mutation of the most recent show-trace click
    nclicks,   \* history: number of show-trace clicks so far
    nodeCls,   \* classList of every node of the file tree
    listeners, \* number of click listeners on each toggle of the file tree
    toggles    \* history: the last two toggle clicks and the classLists before each

qvars == <<qs, query, order, nsets, str, ret>>

dvars == <<variant, page, search, classList, scrolled, opened, console, thrown, pc,
           last, loadedBy, changer, regionCls, clicked, scrollThrows, initLog>>

cvars == <<tbody, tableCls, cpc, expanded>>

vars == <<qs, query, order, nsets, str, ret, variant, page, search, classList, scrolled,
          opened, console, thrown, pc, last, loadedBy, changer, regionCls, clicked,
          scrollThrows, initLog, tbody, tableCls, cpc, expanded,
          rowCls, searched, tabs, shown, traces, fetches, requested, nclicks,
          nodeCls, listeners, toggles>>

svars == <<rowCls, searched>>

tvars == <<tabs, shown, traces, fetches, requested, nclicks>>

\* what the handlers of one script leave alone
fvars == <<nodeCls, listeners, toggles>>

nonQuery == <<dvars, cvars, svars, tvars, fvars>>
nonPage == <<qvars, cvars, svars, tvars, fvars>>
nonCollapse == <<qvars, dvars, svars, tvars, fvars>>
nonSearch == <<qvars, dvars, cvars, tvars, fvars>>
nonTabs == <<qvars, dvars, cvars, svars, fvars>>
nonTree == <<qvars, dvars, cvars, svars, tvars>>

-----------------------------------------------------------------------------
(* Bounds of the model *)

MaxLen == 4        \* longest query text handed to new Query(...)
MaxSets == 3       \* most setAttribute calls on one Query object
MaxRows == 20      \* most rows of one served tbody
MaxQuery == 2      \* longest text typed into the search input
MaxClicks == 3     \* most show-trace clicks on one page

-----------------------------------------------------------------------------
(* JavaScript values *)

Amp == "&"
Eq == "="

\* characters of the texts the model enumerates
Chars == {"a", "b", "1", "2", Amp, Eq}

Digits == <<"0", "1", "2", "3", "4", "5", "6", "7", "8", "9">>

\* the value undefined (no string holds the character "#undefined")
Undefined == <<"#undefined">>

\* a marker for "toString has not been called since the last change"
NoStr == <<"#nostr">>

\* a marker for "the Query is no longer the parse of a text"
NoText == <<"#notext">>

\* keys and values handed to setAttribute
SetKeys == {<<>>, <<"a">>, <<"b">>, <<"1">>, <<"2">>, <<Amp>>}
SetValues == {<<>>, <<"a">>, <<Eq>>}

\* texts whose values are the words getBooleanAttribute is asked about
BooleanTexts ==
    {<<"a", Eq, "true">>, <<"a", Eq, "TRUE">>, <<"a", Eq, "false">>,
     <<"a", Eq, "true", Amp, "b", Eq, "false">>,
     <<"a", Eq, "TRUE", Amp, "b", Eq, "true">>,
     <<"a", Eq, "true", Amp, "a", Eq>>,
     <<"true">>, <<"a", Eq, "true", "a">>}

\* "no getter has been called since the last change"
NoRet == [fn |-> "none", key |-> <<>>, value |-> <<>>, bool |-> FALSE]

\* `${v}`: template-literal conversion of a value to a string
ToStr(v) == IF v = Undefined THEN <<"undefined">> ELSE v

RECURSIVE StringsUpTo(_)
StringsUpTo(n) ==
    IF n = 0 THEN {<<>>}
    ELSE LET shorter == StringsUpTo(n - 1)
         IN shorter \cup {Append(s, c) : s \in {t \in shorter : Len(t) = n - 1}, c \in Chars}

\* String.prototype.split(d) for a one-character separator d
RECURSIVE Split(_, _)
Split(s, d) ==
    IF \A i \in 1..Len(s) : s[i] # d THEN <<s>>
    ELSE LET i == CHOOSE j \in 1..Len(s) : s[j] = d /\ \A h \in 1..(j - 1) : s[h] # d
         IN <<SubSeq(s, 1, i - 1)>> \o Split(SubSeq(s, i + 1, Len(s)), d)

\* Array.prototype.join(d)
RECURSIVE Join(_, _)
Join(parts, d) ==
    IF parts = <<>> THEN <<>>
    ELSE IF Len(parts) = 1 THEN parts[1]
    ELSE parts[1] \o <<d>> \o Join(Tail(parts), d)

DigitValue(c) == (CHOOSE i \in 1..10 : Digits[i] = c) - 1

IsDigit(c) == \E i \in 1..10 : Digits[i] = c

RECURSIVE NumValue(_)
NumValue(k) == IF k = <<>> THEN 0
               ELSE 10 * NumValue(SubSeq(k, 1, Len(k) - 1)) + DigitValue(k[Len(k)])

\* an "array index" property key: a canonical decimal integer below 2^32 - 1
IsArrayIndex(k) ==
    /\ k # <<>>
    /\ \A i \in 1..Len(k) : IsDigit(k[i])
    /\ (Len(k) > 1 => k[1] # "0")
    /\ Len(k) <= 9

-----------------------------------------------------------------------------
(* JavaScript objects: a sequence of [k, v] entries in Object.keys order    *)
(* (array-index keys ascending first, then the other keys in the order in   *)
(* which they were created).                                                *)

HasKey(obj, k) == \E i \in 1..Len(obj) : obj[i].k = k

\* obj[k]
Get(obj, k) ==
    IF HasKey(obj, k) THEN obj[CHOOSE i \in 1..Len(obj) : obj[i].k = k].v
    ELSE Undefined

\* position at which a new key k is created
InsertPos(obj, k) ==
    IF IsArrayIndex(k)
    THEN 1 + Cardinality({i \in 1..Len(obj) :
                            IsArrayIndex(obj[i].k) /\ NumValue(obj[i].k) < NumValue(k)})
    ELSE Len(obj) + 1

\* obj[k] = v
Put(obj, k, v) ==
    IF HasKey(obj, k)
    THEN [i \in 1..Len(obj) |-> IF obj[i].k = k THEN [k |-> k, v |-> v] ELSE obj[i]]
    ELSE LET p == InsertPos(obj, k)
         IN SubSeq(obj, 1, p - 1) \o <<[k |-> k, v |-> v]>> \o SubSeq(obj, p, Len(obj))

\* Object.keys(obj)
ObjectKeys(obj) == [i \in 1..Len(obj) |-> obj[i].k]

-----------------------------------------------------------------------------
(* class Query (query.js) *)

\* the forEach body with "queryObject[key] = value" only for a key not yet stored
RECURSIVE ParseSegments_KeepFirst(_, _)
ParseSegments_KeepFirst(segs, queryObject) ==
    IF segs = <<>> THEN queryObject
    ELSE LET seg == Head(segs)
             splitQuery == Split(seg, Eq)
             value == IF Len(splitQuery) >= 2 THEN splitQuery[2] ELSE Undefined
         IN ParseSegments_KeepFirst(Tail(segs),
                          IF seg # <<>> /\ ~HasKey(queryObject, splitQuery[1])
                          THEN Put(queryObject, splitQuery[1], value)
                          ELSE queryObject)

\* the forEach body of Query.parser, applied to the segments left to right
RECURSIVE ParseSegments(_, _)
ParseSegments(segs, queryObject) ==
    IF segs = <<>> THEN queryObject
    ELSE LET seg == Head(segs)
             splitQuery == Split(seg, Eq)
             value == IF Len(splitQuery) >= 2 THEN splitQuery[2] ELSE Undefined
         IN ParseSegments(Tail(segs),
                          IF seg # <<>> THEN Put(queryObject, splitQuery[1], value)
                          ELSE queryObject)

\* parser with the guard "if (query !== '')" widened to drop "=" as well
parser_DropBareEq(text) ==
    ParseSegments([i \in 1..Len(Split(text, Amp)) |->
                       IF Split(text, Amp)[i] = <<Eq>> THEN <<>> ELSE Split(text, Amp)[i]],
                  <<>>)

\* static parser(query)
parser(text) == ParseSegments(Split(text, Amp), <<>>)

\* setAttribute(attribute, value)
setAttribute(obj, attribute, value) == Put(obj, attribute, value)

\* getAttribute(attribute)
getAttribute(obj, attribute) == Get(obj, attribute)

\* getBooleanAttribute as the truthiness of the stored value
getBooleanAttribute_Truthy(obj, attribute) ==
    Get(obj, attribute) \notin {Undefined, <<>>}

\* getBooleanAttribute(attribute)
getBooleanAttribute(obj, attribute) == Get(obj, attribute) = <<"true">>

\* toString over the keys in reverse order
toString_Reversed(obj) ==
    Join([i \in 1..Len(obj) |->
             obj[Len(obj) + 1 - i].k \o <<Eq>> \o ToStr(Get(obj, obj[Len(obj) + 1 - i].k))],
         Amp)

\* toString()
toString(obj) ==
    Join([i \in 1..Len(obj) |-> obj[i].k \o <<Eq>> \o ToStr(Get(obj, obj[i].k))], Amp)

-----------------------------------------------------------------------------
(* openFile (files.js) *)

\* the own enumerable properties of a Query instance: its one field, query
QueryInstance(queryObject) == <<[k |-> <<"query">>, v |-> queryObject]>>

\* for (let key in array): the indices of the array, as strings
ForInArray(array) == [i \in 1..Len(array) |-> <<Digits[i]>>]

\* the url openFile hands to window.open(url, '_self')
openFile(filePath, params) ==
    LET keys == ForInArray(ObjectKeys(params))
        formattedParams == [i \in 1..Len(keys) |->
                               keys[i] \o <<Eq>> \o ToStr(Get(params, keys[i]))]
    IN filePath \o <<"?">> \o Join(formattedParams, Amp)

-----------------------------------------------------------------------------
(* The documents the server renders.  Every file holds one classless code   *)
(* block, and conflict groups: the block of original code (the conflict     *)
(* region, visible) and one hidden block per mutation, whose id is the      *)
(* mutation id; the members of a group share their first class token.       *)

Files == {<<"a.html">>, <<"b.html">>}

TBodies(file) ==
    IF file = <<"a.html">> THEN {"a0", "a1", "a2", "a3", "a4", "a5"}
    ELSE {"b0", "b1", "b2"}

NoElement == "null"

\* the id attribute of an element (empty: none)
IdOf(e) ==
    CASE e = "a2" -> <<"m1">>
      [] e = "a3" -> <<"m2">>
      [] e = "a5" -> <<"m3">>
      [] e = "b2" -> <<"m4">>
      [] OTHER -> <<>>

\* the class attribute as served
ServedClassList(e) ==
    CASE e = "a1" -> <<"g1", "mutation-conflict-region">>
      [] e = "a2" -> <<"g1", "hidden">>
      [] e = "a3" -> <<"g1", "hidden">>
      [] e = "a4" -> <<"g2", "mutation-conflict-region">>
      [] e = "a5" -> <<"g2", "hidden">>
      [] e = "b1" -> <<"g3", "mutation-conflict-region">>
      [] e = "b2" -> <<"g3", "hidden">>
      [] OTHER -> <<>>

\* mutation ids a page can be asked for; m9 is in no document
MutationIds == {<<"m1">>, <<"m2">>, <<"m3">>, <<"m4">>, <<"m9">>}

\* data-mutation-id and file path of the ft-mutation entries of the file tree
FtMutations == {<<<<"m1">>, <<"a.html">>>>, <<<<"m2">>, <<"a.html">>>>,
                <<<<"m3">>, <<"a.html">>>>, <<<<"m4">>, <<"b.html">>>>}

\* data-mutation-id and data-file-path of the search-mutation rows
SearchMutations == FtMutations \cup {<<<<"m9">>, <<"b.html">>>>}

MUTATION_ID_ATTR == <<"mutation_id">>

\* the query strings a page is first opened with
ServedSearches ==
    {<<>>} \cup {<<"?">> \o MUTATION_ID_ATTR \o <<Eq>> \o id : id \in MutationIds}

-----------------------------------------------------------------------------
(* DOM operations *)

Contains(cl, token) == \E i \in 1..Len(cl) : cl[i] = token

\* classList.add(token)
Add(cl, token) == IF Contains(cl, token) THEN cl ELSE Append(cl, token)

\* classList.remove(token)
Remove(cl, token) == SelectSeq(cl, LAMBDA c : c # token)

\* document.getElementById(id) in the current document
GetElementById(id) ==
    IF \E e \in DOMAIN classList : IdOf(e) = id /\ id # <<>>
    THEN CHOOSE e \in DOMAIN classList : IdOf(e) = id
    ELSE NoElement

\* document.getElementsByClassName(className)
GetElementsByClassName(cls, className) ==
    {e \in DOMAIN cls : Contains(cls[e], className)}

\* Query.queryString()
queryString == IF search = <<>> THEN <<>> ELSE Tail(search)

-----------------------------------------------------------------------------
(* mutations.js *)

\* hideMutationsWithClassName that hides nothing
hideMutationsWithClassName_Nothing(cls, className) == cls

\* hideMutationsWithClassName(className)
hideMutationsWithClassName(cls, className) ==
    [e \in DOMAIN cls |->
        IF e \in GetElementsByClassName(cls, className) THEN Add(cls[e], "hidden")
        ELSE cls[e]]

\* Reveal that unhides el and hides nothing
Reveal_OnlyUnhide(cls, el) == [cls EXCEPT ![el] = Remove(cls[el], "hidden")]

\* Reveal that leaves every class as it is
Reveal_Nothing(cls, el) == cls

\* lines 16-20 of openMutation: reveal el and hide its conflict group
Reveal(cls, el) ==
    IF Contains(cls[el], "hidden")
    THEN LET classUuid == cls[el][1]
             hid == hideMutationsWithClassName(cls, classUuid)
         IN [hid EXCEPT ![el] = Remove(hid[el], "hidden")]
    ELSE cls

\* marking el selected without clearing the other tbodies
Select_NoClear(cls, el) == [cls EXCEPT ![el] = Add(cls[el], "selected")]

\* lines 21-22 of openMutation: el becomes the selected tbody
Select(cls, el) ==
    LET cleared == [e \in DOMAIN cls |-> Remove(cls[e], "selected")]
    IN [cleared EXCEPT ![el] = Add(cleared[el], "selected")]

\* the catch block that redirects whatever autoRedirect says
Catch_AlwaysRedirect(mutationId, filePath, autoRedirect) ==
    [opened |-> <<openFile(filePath,
                           QueryInstance(setAttribute(parser(<<>>), MUTATION_ID_ATTR,
                                                      mutationId)))>>,
     console |-> <<>>]

\* lines 26-34 of openMutation: the catch block
Catch(mutationId, filePath, autoRedirect) ==
    LET q == setAttribute(parser(<<>>), MUTATION_ID_ATTR, mutationId)
    IN IF autoRedirect
       THEN [opened |-> <<openFile(filePath, QueryInstance(q))>>, console |-> <<>>]
       ELSE [opened |-> <<>>, console |-> <<<<"error", mutationId>>>>]

NoCall == [op |-> "none", id |-> <<>>, path |-> <<>>, autoscroll |-> FALSE,
           autoRedirect |-> FALSE, el |-> NoElement, wasHidden |-> FALSE,
           raised |-> FALSE, before |-> <<>>]

\* the try block unselecting every tbody before it looks the element up
TryBlock_UnselectFirst(cls, el) ==
    IF el = NoElement THEN [e \in DOMAIN cls |-> Remove(cls[e], "selected")]
    ELSE Select(Reveal(cls, el), el)

\* lines 15-22 of openMutation: what the try block does to the classLists.  With
\* no element, el.classList throws at line 16 before anything is touched.
TryBlock(cls, el) ==
    IF el = NoElement THEN cls ELSE Select(Reveal(cls, el), el)

\* "the last handler served no click in the switcher"
NoClick == [kind |-> "none", el |-> NoElement, id |-> <<>>, target |-> "",
            before |-> <<>>]

\* openMutation(mutationId, filePath, autoscroll, autoRedirect), called when the
\* classLists of the document are cls.  The openMutation of mutest-ui
\* (mutations.js:42-59) has no autoscroll and autoRedirect: it is this one with
\* both true.
openMutation(cls, mutationId, filePath, autoscroll, autoRedirect) ==
    LET el == GetElementById(mutationId)
        caught == Catch(mutationId, filePath, autoRedirect)
        \* el.scrollIntoView() at line 24 throws
        raised == el # NoElement /\ autoscroll /\ scrollThrows
    IN /\ last' = [op |-> "openMutation", id |-> mutationId, path |-> filePath,
                   autoscroll |-> autoscroll, autoRedirect |-> autoRedirect,
                   el |-> el,
                   wasHidden |-> el # NoElement /\ Contains(cls[el], "hidden"),
                   raised |-> raised,
                   \* kept for a miss only
                   before |-> IF el = NoElement THEN cls ELSE <<>>]
       /\ thrown' = FALSE
       /\ classList' = TryBlock(cls, el)
       /\ IF el # NoElement /\ ~raised
          THEN /\ scrolled' = IF autoscroll THEN el ELSE scrolled
               /\ console' = <<>>
               /\ UNCHANGED opened
          ELSE \* null.classList or scrollIntoView throws, caught at line 26
               /\ opened' = opened \o caught.opened
               /\ console' = caught.console
               /\ UNCHANGED scrolled
       /\ pc' = IF opened' # <<>> THEN "unloading" ELSE "ready"

\* openQueryMutation(): inspector/mutations.js:41-46, ui/mutations.js:65-70
OpenQueryMutation ==
    /\ pc = "query"
    /\ initLog' = Append(initLog, "openQueryMutation")
    /\ LET q == parser(queryString)
       IN IF getAttribute(q, MUTATION_ID_ATTR) # Undefined
          THEN IF variant = "inspector"
               THEN openMutation(classList, getAttribute(q, MUTATION_ID_ATTR), <<>>,
                                 TRUE, FALSE)
               ELSE openMutation(classList, getAttribute(q, MUTATION_ID_ATTR), <<>>,
                                 TRUE, TRUE)
          ELSE /\ pc' = "ready"
               /\ console' = <<>>
               /\ thrown' = FALSE
               /\ UNCHANGED <<classList, scrolled, opened, last>>
    /\ clicked' = NoClick
    /\ UNCHANGED <<scrollThrows, variant, page, search, loadedBy, changer, regionCls>>
    /\ UNCHANGED nonPage

\* click on an ft-mutation entry of the file tree (file-tree.js:56-60)
FtMutationClick(m) ==
    /\ pc = "ready"
    /\ openMutation(classList, m[1], m[2], TRUE, TRUE)
    /\ clicked' = NoClick
    /\ UNCHANGED <<initLog, scrollThrows, variant, page, search, loadedBy, changer, regionCls>>
    /\ UNCHANGED nonPage

\* click on a search-mutation row (search-main.js:5-9)
SearchMutationClick(m) ==
    /\ pc = "ready"
    /\ variant = "inspector"
    /\ openMutation(classList, m[1], m[2], TRUE, TRUE)
    /\ clicked' = NoClick
    /\ UNCHANGED <<initLog, scrollThrows, variant, page, search, loadedBy, changer, regionCls>>
    /\ UNCHANGED nonPage

-----------------------------------------------------------------------------
(* mutation-switcher.js: the MutationSwitcher *)

\* the elements of class mutation-conflict-region of all documents
Regions == {"a1", "a4", "b1"}

\* this.mcrs: the conflict regions of the document, collected when it loads
Mcrs(file) ==
    {e \in TBodies(file) : Contains(ServedClassList(e), "mutation-conflict-region")}

\* the children of changer-regions, by id
RegionPanels(file) == IF file = <<"a.html">> THEN {"g1", "g2"} ELSE {"g3"}

\* the mutation-wrapper entries of the switcher: data-mutation-id and
\* data-target-class; the entry of m9 names a mutation no document holds
Variants ==
    {[id |-> <<"m1">>, target |-> "g1", file |-> <<"a.html">>],
     [id |-> <<"m2">>, target |-> "g1", file |-> <<"a.html">>],
     [id |-> <<"m3">>, target |-> "g2", file |-> <<"a.html">>],
     [id |-> <<"m9">>, target |-> "g1", file |-> <<"a.html">>],
     [id |-> <<"m4">>, target |-> "g3", file |-> <<"b.html">>]}

\* show()
show(cl) == Remove(cl, "hidden")

\* hide that hides nothing
hide_Nothing(cl) == cl

\* hide()
hide(cl) == Add(cl, "hidden")

\* unselectAllMcrs that unselects nothing
unselectAllMcrs_Nothing(cls, mcrs) == cls

\* unselectAllMcrs()
unselectAllMcrs(cls, mcrs) ==
    [e \in DOMAIN cls |-> IF e \in mcrs THEN Remove(cls[e], "selected") ELSE cls[e]]

\* click on a conflict region: populateSwitcherContent(e)
ConflictRegionClick(r) ==
    /\ pc = "ready"
    /\ r \in Mcrs(page)
    /\ LET unselected == unselectAllMcrs(classList, Mcrs(page))
           panel == classList[r][1]
       IN /\ classList' = [unselected EXCEPT ![r] = Add(@, "selected")]
          /\ changer' = show(changer)
          /\ regionCls' = [p \in DOMAIN regionCls |->
                             IF p = panel THEN Remove(Add(regionCls[p], "hidden"), "hidden")
                             ELSE Add(regionCls[p], "hidden")]
          \* document.getElementById(e.classList[0]) is null without such a panel
          /\ thrown' = (panel \notin DOMAIN regionCls)
    /\ clicked' = [kind |-> "region", el |-> r, id |-> <<>>, target |-> "",
                   before |-> <<>>]
    /\ last' = NoCall
    /\ console' = <<>>
    /\ UNCHANGED <<initLog, scrollThrows, variant, page, search, scrolled, opened, pc, loadedBy>>
    /\ UNCHANGED nonPage

\* click on a mutation-wrapper of the switcher: showMutationInCode(e)
SwitcherVariantClick(w) ==
    /\ pc = "ready"
    /\ w.file = page
    /\ openMutation(hideMutationsWithClassName(classList, w.target), w.id, <<>>,
                    TRUE, TRUE)
    /\ clicked' = [kind |-> "variant", el |-> NoElement, id |-> w.id, target |-> w.target,
                   \* the classLists before the click, kept for a miss only
                   before |-> IF GetElementById(w.id) = NoElement THEN classList
                              ELSE <<>>]
    /\ UNCHANGED <<initLog, scrollThrows, variant, page, search, loadedBy, changer, regionCls>>
    /\ UNCHANGED nonPage

\* click on mutation-changer-close-btn
SwitcherCloseClick ==
    /\ pc = "ready"
    /\ changer' = hide(changer)
    /\ classList' = unselectAllMcrs(classList, Mcrs(page))
    /\ clicked' = [kind |-> "close", el |-> NoElement, id |-> <<>>, target |-> "",
                   before |-> classList]
    /\ last' = NoCall
    /\ console' = <<>>
    /\ thrown' = FALSE
    /\ UNCHANGED <<initLog, scrollThrows, variant, page, search, scrolled, opened, pc, loadedBy, regionCls>>
    /\ UNCHANGED nonPage

-----------------------------------------------------------------------------
(* Page lifetime *)

\* the switcher as served
ServedChanger == {<<>>, <<"hidden">>}

\* the region panels as served
ServedRegions(file) == [RegionPanels(file) -> {<<>>, <<"hidden">>}]

\* the part of a url before its "?"
UrlPath(url) == Split(url, "?")[1]

\* location.search of a url: from its first "?" on, empty for a bare "?"
UrlSearch(url) ==
    LET rest == SubSeq(url, Len(UrlPath(url)) + 1, Len(url))
    IN IF Len(rest) <= 1 THEN <<>> ELSE rest

ServedDocument(file) == [e \in TBodies(file) |-> ServedClassList(e)]

\* the browser replaces the document by the one window.open(url, '_self') named
PageLoad ==
    /\ pc = "unloading"
    /\ LET url == opened[Len(opened)]
           file == IF UrlPath(url) = <<>> THEN page ELSE UrlPath(url)
       IN /\ page' = file
          /\ search' = UrlSearch(url)
          /\ classList' = ServedDocument(file)
    /\ scrolled' = NoElement
    /\ opened' = <<>>
    /\ console' = <<>>
    /\ thrown' = FALSE
    /\ loadedBy' = [last EXCEPT !.before = <<>>]
    /\ last' = NoCall
    /\ pc' = "load"
    /\ changer' \in ServedChanger
    /\ regionCls' \in ServedRegions(page')
    /\ clicked' = NoClick
    /\ initLog' = <<>>
    /\ UNCHANGED <<scrollThrows, variant>>
    /\ UNCHANGED nonPage

\* the DOMContentLoaded handler of code-main.js up to openQueryMutation
\* the handler collapsing before any listener is registered
InitSteps_CollapseFirst(v) ==
    <<"collapse", "FileTree.init", "MutationSwitcher.init">>

\* the steps of the DOMContentLoaded handler of code-main.js up to the call of
\* openQueryMutation: the inspector's collapse_and_show ends by revealing the
\* code table; the collapse() of the mutest-ui scripts is a collapse only
InitSteps(v) ==
    IF v = "inspector"
    THEN <<"FileTree.init", "MutationSwitcher.init", "collapse", "show code-table">>
    ELSE <<"FileTree.init", "MutationSwitcher.init", "collapse">>

DOMContentLoaded ==
    /\ pc = "load"
    /\ pc' = "query"
    /\ clicked' = NoClick
    /\ initLog' = initLog \o InitSteps(variant)
    /\ UNCHANGED <<scrollThrows, variant, page, search, classList, scrolled, opened, console, thrown,
                   last, loadedBy, changer, regionCls>>
    /\ UNCHANGED nonPage

DomIdle ==
    /\ variant = "inspector"
    /\ page = <<"a.html">>
    /\ search = <<>>
    /\ classList = ServedDocument(<<"a.html">>)
    /\ scrolled = NoElement
    /\ opened = <<>>
    /\ console = <<>>
    /\ thrown = FALSE
    /\ pc = "idle"
    /\ last = NoCall
    /\ loadedBy = NoCall
    /\ changer = <<>>
    /\ regionCls = <<>>
    /\ clicked = NoClick
    /\ scrollThrows = FALSE
    /\ initLog = <<>>

CollapseIdle ==
    /\ tbody = <<>>
    /\ tableCls = <<>>
    /\ cpc = "idle"
    /\ expanded = {}

\* "search has not been called"
NoSearch == [query |-> <<>>, regex |-> FALSE, before |-> <<>>, thrown |-> FALSE]

SearchIdle ==
    /\ rowCls = <<>>
    /\ searched = NoSearch

TreeIdle ==
    /\ nodeCls = <<>>
    /\ listeners = 0
    /\ toggles = <<>>

TabsIdle ==
    /\ tabs = <<>>
    /\ shown = "none"
    /\ traces = <<>>
    /\ fetches = {}
    /\ requested = <<>>
    /\ nclicks = 0

QueryIdle ==
    /\ qs = <<>>
    /\ query = <<>>
    /\ order = <<>>
    /\ nsets = 0
    /\ str = NoStr
    /\ ret = NoRet

PageInit ==
    /\ variant \in {"inspector", "ui"}
    /\ page \in Files
    /\ search \in ServedSearches
    /\ classList = ServedDocument(page)
    /\ scrolled = NoElement
    /\ opened = <<>>
    /\ console = <<>>
    /\ thrown = FALSE
    /\ pc = "load"
    /\ last = NoCall
    /\ loadedBy = NoCall
    /\ changer \in ServedChanger
    /\ regionCls \in ServedRegions(page)
    /\ clicked = NoClick
    /\ initLog = <<>>
    /\ QueryIdle
    /\ CollapseIdle
    /\ SearchIdle
    /\ TabsIdle
    /\ TreeIdle

Next ==
    \/ DOMContentLoaded
    \/ OpenQueryMutation
    \/ \E m \in FtMutations : FtMutationClick(m)
    \/ \E m \in SearchMutations : SearchMutationClick(m)
    \/ \E r \in Regions : ConflictRegionClick(r)
    \/ \E w \in Variants : SwitcherVariantClick(w)
    \/ SwitcherCloseClick
    \/ PageLoad

\* a browser whose elements scroll into view
Init == PageInit /\ scrollThrows = FALSE

Spec == Init /\ [][Next]_vars

\* any browser, also one where scrollIntoView throws (it is no function there)
InitAnyBrowser == PageInit /\ scrollThrows \in BOOLEAN

SpecAnyBrowser == InitAnyBrowser /\ [][Next]_vars

-----------------------------------------------------------------------------
(* Properties of openMutation and openQueryMutation *)

Hidden(e) == Contains(classList[e], "hidden")

Selected(e) == Contains(classList[e], "selected")

Missed == last.op = "openMutation" /\ last.el = NoElement

Found == last.op = "openMutation" /\ last.el # NoElement

\* the states of the mutation view
View ==
    IF opened # <<>> THEN "NAVIGATING"
    ELSE IF \E e \in DOMAIN classList : Selected(e) THEN "OPEN_INLINE"
    ELSE "CLOSED"

\* C1: openMutation(id, path) with autoRedirect = true and no element with that
\* id triggers exactly one navigation, to path?mutation_id=<id>.
C1_NavigatesWithMutationId ==
    (Missed /\ last.autoRedirect) =>
        opened = <<last.path \o <<"?">> \o MUTATION_ID_ATTR \o <<Eq>> \o last.id>>

\* the step of openQueryMutation on a document that an openMutation navigation
\* loaded and that holds the requested element
OpenedByLoad ==
    (/\ pc = "query" /\ pc' # "query"
     /\ loadedBy.op = "openMutation"
     /\ GetElementById(loadedBy.id) # NoElement)
    => (/\ ~Contains(classList'[GetElementById(loadedBy.id)], "hidden")
        /\ Contains(classList'[GetElementById(loadedBy.id)], "selected"))

\* C2: when the document was loaded by the navigation of openMutation(id, filePath)
\* and holds the element with that id, the load-time openQueryMutation leaves
\* that element visible and selected.
C2_OpenedAfterNavigation == [][OpenedByLoad]_vars

\* C3: openMutation on an element that exists and is visible causes no
\* navigation and leaves that element the only tbody marked selected.
C3_VisibleSoleSelected ==
    (Found /\ ~last.wasHidden) =>
        /\ opened = <<>>
        /\ pc = "ready"
        /\ {e \in DOMAIN classList : Selected(e)} = {last.el}

C3_Witness ==
    /\ Found /\ ~last.wasHidden
    /\ last.el = "a5"
    /\ ~Hidden("a2")

\* C4: openMutation on an element that exists and is hidden leaves it visible and
\* every other element carrying its first class token hidden: exactly one member
\* of its conflict group is visible.
C4_RevealsOneOfGroup ==
    (Found /\ last.wasHidden) =>
        LET group == GetElementsByClassName(classList, classList[last.el][1])
        IN /\ ~Hidden(last.el)
           /\ \A e \in group \ {last.el} : Hidden(e)
           /\ Cardinality({e \in group : ~Hidden(e)}) = 1

C4_Witness ==
    /\ Found /\ last.wasHidden
    /\ last.el = "a3"
    /\ Cardinality(GetElementsByClassName(classList, "g1")) = 3

\* C5: openMutation with autoRedirect = false and no element with that id causes
\* no navigation and no exception, logs the failure, and the view stays CLOSED.
C5_MissWithoutRedirect ==
    (Missed /\ ~last.autoRedirect) =>
        /\ opened = <<>>
        /\ pc = "ready"
        /\ ~thrown
        /\ console = <<<<"error", last.id>>>>
        /\ View = "CLOSED"
        /\ classList = ServedDocument(page)

C5_Witness ==
    /\ Missed /\ ~last.autoRedirect
    /\ last.id = <<"m4">>
    /\ page = <<"a.html">>

\* a step of the page-load pass opens no url
LoadStepStays == pc \in {"load", "query"} => (opened' = <<>> /\ pc' # "unloading")

\* C6: the page-load pass (the DOMContentLoaded handler and openQueryMutation)
\* never triggers a navigation.
C6_LoadNeverNavigates == [][LoadStepStays]_vars

-----------------------------------------------------------------------------
(* Specification of the Query class alone *)

\* keys of a text in order of first occurrence, read off the text directly
RECURSIVE FirstKeys(_, _)
FirstKeys(segs, seen) ==
    IF segs = <<>> THEN seen
    ELSE LET key == Split(Head(segs), Eq)[1]
         IN FirstKeys(Tail(segs),
                      IF Head(segs) = <<>> \/ \E i \in 1..Len(seen) : seen[i] = key
                      THEN seen ELSE Append(seen, key))

QInit ==
    /\ qs \in StringsUpTo(MaxLen) \cup BooleanTexts
    /\ query = parser(qs)
    /\ order = FirstKeys(Split(qs, Amp), <<>>)
    /\ nsets = 0
    /\ str = NoStr
    /\ ret = NoRet
    /\ DomIdle
    /\ CollapseIdle
    /\ SearchIdle
    /\ TabsIdle
    /\ TreeIdle

\* query.setAttribute(k, v) on a Query made by new Query('') (mutations.js:27-28,
\* the way every caller builds a Query before setting attributes)
SetAttribute(k, v) ==
    /\ nsets < MaxSets
    /\ qs \in {<<>>, NoText}
    /\ query' = setAttribute(query, k, v)
    /\ order' = IF \E i \in 1..Len(order) : order[i] = k THEN order ELSE Append(order, k)
    /\ nsets' = nsets + 1
    /\ str' = NoStr
    /\ ret' = NoRet
    /\ qs' = NoText
    /\ UNCHANGED nonQuery

\* query.toString()
QueryToString ==
    /\ str = NoStr
    /\ str' = toString(query)
    /\ ret' = NoRet
    /\ UNCHANGED <<qs, query, order, nsets>>
    /\ UNCHANGED nonQuery

\* query.getAttribute(k)
GetAttribute(k) ==
    /\ ret' = [fn |-> "getAttribute", key |-> k, value |-> getAttribute(query, k),
               bool |-> FALSE]
    /\ ret' # ret
    /\ str' = NoStr
    /\ UNCHANGED <<qs, query, order, nsets>>
    /\ UNCHANGED nonQuery

\* query.getBooleanAttribute(k)
GetBooleanAttribute(k) ==
    /\ ret' = [fn |-> "getBooleanAttribute", key |-> k, value |-> <<>>,
               bool |-> getBooleanAttribute(query, k)]
    /\ ret' # ret
    /\ str' = NoStr
    /\ UNCHANGED <<qs, query, order, nsets>>
    /\ UNCHANGED nonQuery

QNext ==
    \/ \E k \in SetKeys, v \in SetValues : SetAttribute(k, v)
    \/ QueryToString
    \/ \E k \in SetKeys : GetAttribute(k)
    \/ \E k \in SetKeys : GetBooleanAttribute(k)

SpecQuery == QInit /\ [][QNext]_vars

-----------------------------------------------------------------------------
(* Reading a text of the form k=v&k=v... without the parser *)

IsClean(s) == s # Undefined /\ \A i \in 1..Len(s) : s[i] \notin {Amp, Eq}

EqCount(seg) == Cardinality({i \in 1..Len(seg) : seg[i] = Eq})

FirstEq(seg) == CHOOSE i \in 1..Len(seg) : seg[i] = Eq /\ \A h \in 1..(i - 1) : seg[h] # Eq

\* the part of a segment before its first "="
KeyOf(seg) == IF EqCount(seg) = 0 THEN seg ELSE SubSeq(seg, 1, FirstEq(seg) - 1)

\* everything after the first "=" of a segment (undefined when it has none)
RestOf(seg) == IF EqCount(seg) = 0 THEN Undefined
               ELSE SubSeq(seg, FirstEq(seg) + 1, Len(seg))

\* the non-empty segments of a text
Segments(text) == LET all == Split(text, Amp)
                  IN {i \in 1..Len(all) : all[i] # <<>>}

Seg(text, i) == Split(text, Amp)[i]

\* every token of the text is free of "&" and "=": each segment is key=value
WellFormed(text) == \A i \in Segments(text) : EqCount(Seg(text, i)) = 1

PairsOf(text) == {<<KeyOf(Seg(text, i)), RestOf(Seg(text, i))>> : i \in Segments(text)}

\* the pairs of the text, a repeated key keeping its last occurrence only
IsLastOfKey(text, i) ==
    \A j \in Segments(text) : j > i => KeyOf(Seg(text, j)) # KeyOf(Seg(text, i))

LastPairsOf(text) ==
    {<<KeyOf(Seg(text, i)), RestOf(Seg(text, i))>> :
        i \in {j \in Segments(text) : IsLastOfKey(text, j)}}

EntriesOf(obj) == {<<obj[i].k, obj[i].v>> : i \in 1..Len(obj)}

\* C7 as stated: for a text whose tokens hold no "&" or "=", the key/value pairs
\* of toString() of the parsed Query are the key/value pairs of the text.
C7_SetEquivalent ==
    (qs # NoText /\ str # NoStr /\ WellFormed(qs)) =>
        (WellFormed(str) /\ PairsOf(str) = PairsOf(qs))

\* C7 amended: for a text whose tokens hold no "&" or "=", the key/value pairs of
\* toString() of the parsed Query are the pairs of the text with, for a key that
\* occurs more than once, only its last occurrence kept.
C7_LastPairs ==
    (qs # NoText /\ str # NoStr /\ WellFormed(qs)) =>
        (WellFormed(str) /\ PairsOf(str) = LastPairsOf(qs))

C7_Witness ==
    /\ qs # NoText /\ str # NoStr /\ WellFormed(qs)
    /\ Cardinality(Segments(qs)) = 2
    /\ Cardinality(LastPairsOf(qs)) = 1
    /\ Cardinality(PairsOf(qs)) = 2

CleanMapping(obj) == \A i \in 1..Len(obj) : IsClean(obj[i].k) /\ IsClean(obj[i].v)

\* C8: a mapping whose keys and values are strings without "&" and "=" is equal
\* to the parse of its serialization.
C8_ParseOfSerialize ==
    (str # NoStr /\ CleanMapping(query)) =>
        parser(str) = query

C8_Witness ==
    /\ str # NoStr /\ qs = NoText /\ CleanMapping(query)
    /\ Len(query) = 2
    /\ \E i \in 1..2 : query[i].k = <<>> /\ query[i].v = <<>>

\* C9 as stated: the parser stores, for each non-empty segment, the part before
\* its first "=" as key and everything after that first "=" as value, the last
\* occurrence of a key winning.
C9_SplitOnFirstEq ==
    qs # NoText => EntriesOf(query) = LastPairsOf(qs)

\* the keys in the order of toString(): array-index keys ascending, then the rest
IndexKeys(keys) == {i \in 1..Len(keys) : IsArrayIndex(keys[i])}

Rank(keys, i) ==
    IF IsArrayIndex(keys[i])
    THEN 1 + Cardinality({j \in IndexKeys(keys) : NumValue(keys[j]) < NumValue(keys[i])})
    ELSE Cardinality(IndexKeys(keys)) + 1
         + Cardinality({j \in 1..(i - 1) : ~IsArrayIndex(keys[j])})

IndexKeysFirst(keys) ==
    [r \in 1..Len(keys) |-> keys[CHOOSE i \in 1..Len(keys) : Rank(keys, i) = r]]

Serialized(keys) ==
    Join([i \in 1..Len(keys) |-> keys[i] \o <<Eq>> \o ToStr(Get(query, keys[i]))], Amp)

\* C10 as stated: toString() lists the pairs in insertion order (setAttribute)
\* or in order of first occurrence in the text (parsed), whatever the keys.
C10_InsertionOrder == str # NoStr => str = Serialized(order)

\* C10 amended: toString() lists first the keys that are canonical array indices
\* ("1", "2", "10", ...) in ascending numeric order, then every other key in
\* insertion order (setAttribute) or order of first occurrence (parsed).
C10_IndexKeysFirst == str # NoStr => str = Serialized(IndexKeysFirst(order))

C10_Witness ==
    /\ str # NoStr
    /\ Len(order) = 3
    /\ IndexKeysFirst(order) # order
    /\ \E i \in 1..3 : ~IsArrayIndex(order[i])

\* C11: getBooleanAttribute(k) is true if and only if the value stored under k is
\* exactly the string "true"; it is false for an absent key, "false", "TRUE", "".
C11_BooleanIffTrue ==
    ret.fn = "getBooleanAttribute" =>
        /\ ret.bool <=> (<<ret.key, <<"true">>>> \in EntriesOf(query))
        /\ ~HasKey(query, ret.key) => ~ret.bool
        /\ \A v \in {<<"false">>, <<"TRUE">>, <<>>, Undefined} :
               <<ret.key, v>> \in EntriesOf(query) => ~ret.bool

C11_Witness ==
    /\ ret.fn = "getBooleanAttribute"
    /\ ret.bool
    /\ \E k \in SetKeys : <<k, <<"false">>>> \in EntriesOf(query)

-----------------------------------------------------------------------------
(* collapser.js: collapse_and_show and the expand button row.             *)
(* childNodes is a sequence of rows; childNodes[i] of the code is         *)
(* childNodes[i + 1] here.  A row records which served row it is (orig,   *)
(* 0-based; -1 for a row the script created), its style.display and the   *)
(* class of each of its cells that the script created.                    *)

Sections == {1, 2}

CollapseThreshold == 15
ContextRows == 5
EndOffset == 6

SourceRow(i) == [orig |-> i, display |-> "", cells |-> <<>>]

ServedRows(n) == [j \in 1..n |-> SourceRow(j - 1)]

\* getExpandButtonRow(callback)
getExpandButtonRow ==
    [orig |-> -1, display |-> "",
     cells |-> <<"detection-status", "numbers", "expand-button">>]

\* section.insertBefore(node, section.childNodes[i])
insertBefore(childNodes, node, i) ==
    SubSeq(childNodes, 1, i) \o <<node>> \o SubSeq(childNodes, i + 1, Len(childNodes))

\* the filter with the class test left out
Collapsable_IgnoreClass(e) == Len(e.childNodes) > CollapseThreshold

\* the filter of collapse_and_show
Collapsable(e) == Len(e.classList) = 0 /\ Len(e.childNodes) > CollapseThreshold

\* the loop of collapse_and_show with `i < end`
collapseSection_ExclusiveEnd(childNodes) ==
    LET end == Len(childNodes) - EndOffset
        hidden == [j \in 1..Len(childNodes) |->
                     IF j - 1 >= ContextRows /\ j - 1 < end
                     THEN [childNodes[j] EXCEPT !.display = "none"]
                     ELSE childNodes[j]]
    IN  insertBefore(hidden, getExpandButtonRow, end)

\* the body of the loop over the collapsable sections
collapseSection(childNodes) ==
    LET end == Len(childNodes) - EndOffset
        hidden == [j \in 1..Len(childNodes) |->
                     IF j - 1 >= ContextRows /\ j - 1 <= end
                     THEN [childNodes[j] EXCEPT !.display = "none"]
                     ELSE childNodes[j]]
    IN  insertBefore(hidden, getExpandButtonRow, end)

\* the callback of the expand button: every child of the section gets
\* display "", and the clicked cell (e.target) is removed from its row
expandCallback(childNodes) ==
    [j \in 1..Len(childNodes) |->
        [orig |-> childNodes[j].orig,
         display |-> "",
         cells |-> SelectSeq(childNodes[j].cells, LAMBDA c : c # "expand-button")]]

HasExpandButton(e) ==
    \E j \in 1..Len(e.childNodes) :
        \E c \in 1..Len(e.childNodes[j].cells) : e.childNodes[j].cells[c] = "expand-button"

\* collapse_and_show(el), el the code table
CollapseAndShow ==
    /\ cpc = "load"
    /\ tbody' = [s \in Sections |->
                    IF Collapsable(tbody[s])
                    THEN [tbody[s] EXCEPT !.childNodes = collapseSection(@)]
                    ELSE tbody[s]]
    /\ tableCls' = Remove(tableCls, "hidden")
    /\ cpc' = "ready"
    /\ UNCHANGED expanded
    /\ UNCHANGED nonCollapse

\* click on the expand button of section s
ExpandClick(s) ==
    /\ cpc = "ready"
    /\ HasExpandButton(tbody[s])
    /\ tbody' = [tbody EXCEPT ![s].childNodes = expandCallback(@)]
    /\ expanded' = expanded \cup {s}
    /\ UNCHANGED <<tableCls, cpc>>
    /\ UNCHANGED nonCollapse

ServedTBodies ==
    {[classList |-> c, childNodes |-> ServedRows(n)] :
        c \in {<<>>, <<"g1">>}, n \in 0..MaxRows}

CInit ==
    /\ tbody \in [Sections -> ServedTBodies]
    /\ tableCls \in {<<>>, <<"hidden">>}
    /\ cpc = "load"
    /\ expanded = {}
    /\ QueryIdle
    /\ DomIdle
    /\ SearchIdle
    /\ TabsIdle
    /\ TreeIdle

CNext ==
    \/ CollapseAndShow
    \/ \E s \in Sections : ExpandClick(s)

SpecCollapse == CInit /\ [][CNext]_vars

-----------------------------------------------------------------------------
(* search.js: exactSearch, regexSearch and search over the rows of class   *)
(* search-mutation.  A pattern is a text over letters, "." (any one        *)
(* character) and "[", which opens a character class that nothing in the   *)
(* alphabet closes: new RegExp throws a SyntaxError on such a pattern.     *)

QChars == {"a", "b", ".", "["}

\* the rows of class search-mutation as served: data-file-path, the last class
\* token of the first cell, innerText of the second and of the third cell
SearchRows ==
    << [path |-> <<"a", ".", "b">>, cls |-> <<"b">>, t1 |-> <<"1">>,
        t2 |-> <<"a", "[", "1">>],
       [path |-> <<"a", "b">>, cls |-> <<"a">>, t1 |-> <<"1">>, t2 |-> <<"b">>],
       [path |-> <<"b">>, cls |-> <<"b">>, t1 |-> <<>>, t2 |-> <<"b", ".">>] >>

\* the texts of at most n characters over an alphabet
StringsOver(chars, n) == UNION {[1..k -> chars] : k \in 0..n}

\* String.prototype.includes
Includes(s, q) ==
    \E i \in 0..(Len(s) - Len(q)) : SubSeq(s, i + 1, i + Len(q)) = q

\* whether new RegExp(regex) returns
ValidRegex(regex) == \A i \in 1..Len(regex) : regex[i] # "["

\* RegExp.prototype.test for a valid pattern: an unanchored match
Test(regex, s) ==
    \E i \in 0..(Len(s) - Len(regex)) :
        \A k \in 1..Len(regex) : regex[k] = "." \/ regex[k] = s[i + k]

\* regexSearch(regex, el), for a pattern new RegExp accepts
regexSearch(regex, el) ==
    \/ Test(regex, el.path)
    \/ Test(regex, el.cls)
    \/ Test(regex, el.t1)
    \/ Test(regex, el.t2)

\* exactSearch that looks at the file path only
exactSearch_PathOnly(q, el) == Includes(el.path, q)

\* exactSearch(query, el)
exactSearch(q, el) ==
    \/ Includes(el.path, q)
    \/ Includes(el.cls, q)
    \/ Includes(el.t1, q)
    \/ Includes(el.t2, q)

\* what the callback of search does to one row: reveal it, hide it, or throw
RowStep(q, regex, el) ==
    IF exactSearch(q, el) THEN "reveal"
    ELSE IF regex
         THEN IF ~ValidRegex(q) THEN "throw"
              ELSE IF regexSearch(q, el) THEN "reveal" ELSE "hide"
         ELSE "hide"

\* the rows (as indices) at which the callback throws
Throwing(q, regex) ==
    {i \in 1..Len(SearchRows) : RowStep(q, regex, SearchRows[i]) = "throw"}

\* the rows the map of search gets through before it ends
Visited(q, regex) ==
    {i \in 1..Len(SearchRows) : \A j \in Throwing(q, regex) : i < j}

\* search(query, regex): the classLists it leaves (the name search is taken by
\* window.location.search)
searchRows(cls, q, regex) ==
    [i \in 1..Len(SearchRows) |->
        IF i \in Visited(q, regex)
        THEN IF RowStep(q, regex, SearchRows[i]) = "reveal"
             THEN Remove(cls[i], "hidden")
             ELSE Add(cls[i], "hidden")
        ELSE cls[i]]

\* input event of the search box, or click on the use-regex box
SearchInput(q, regex) ==
    /\ searched' = [query |-> q, regex |-> regex, before |-> rowCls,
                    thrown |-> Throwing(q, regex) # {}]
    /\ rowCls' = searchRows(rowCls, q, regex)
    /\ UNCHANGED nonSearch

ServedRowCls == {<<"search-mutation">>, <<"search-mutation", "hidden">>}

SInit ==
    /\ rowCls \in [1..Len(SearchRows) -> ServedRowCls]
    /\ searched = NoSearch
    /\ QueryIdle
    /\ DomIdle
    /\ CollapseIdle
    /\ TabsIdle
    /\ TreeIdle

SNext == \E q \in StringsOver(QChars, MaxQuery), regex \in BOOLEAN : SearchInput(q, regex)

SpecSearch == SInit /\ [][SNext]_vars

\* the served rows still in the block, as 0-based indices
OrigRows(e) == {e.childNodes[j].orig : j \in 1..Len(e.childNodes)} \ {-1}

HiddenRows(e) ==
    {e.childNodes[j].orig : j \in {i \in 1..Len(e.childNodes) :
                                     e.childNodes[i].display = "none"}}

VisibleRows(e) ==
    {e.childNodes[j].orig : j \in {i \in 1..Len(e.childNodes) :
                                     /\ e.childNodes[i].display = ""
                                     /\ e.childNodes[i].orig # -1}}

\* rows of the block that the script created
AffordanceRows(e) == {j \in 1..Len(e.childNodes) : e.childNodes[j].orig = -1}

\* the block as served, judged by the rows it holds now
AsServed(e) == e.childNodes = ServedRows(Cardinality(OrigRows(e)))

\* C12 as stated: collapsing a classless block of 20 rows hides exactly the rows
\* with indices 5..13 and inserts exactly one expand-affordance row.
C12_HidesFiveToThirteen ==
    cpc = "ready" =>
        \A s \in Sections \ expanded :
            (Len(tbody[s].classList) = 0 /\ Cardinality(OrigRows(tbody[s])) = 20) =>
                /\ HiddenRows(tbody[s]) = 5..13
                /\ Cardinality(AffordanceRows(tbody[s])) = 1

\* C12 amended: collapsing a classless block of 20 rows hides exactly the rows
\* with indices 5..14 and inserts exactly one expand-affordance row, which
\* stands directly before row 14.
C12_HidesFiveToFourteen ==
    cpc = "ready" =>
        \A s \in Sections \ expanded :
            (Len(tbody[s].classList) = 0 /\ Cardinality(OrigRows(tbody[s])) = 20) =>
                /\ HiddenRows(tbody[s]) = 5..14
                /\ AffordanceRows(tbody[s]) = {15}
                /\ tbody[s].childNodes[16].orig = 14
                /\ Len(tbody[s].childNodes) = 21

C12_Witness ==
    /\ cpc = "ready"
    /\ \E s \in Sections \ expanded :
          /\ Len(tbody[s].classList) = 0
          /\ Cardinality(OrigRows(tbody[s])) = 20
          /\ HiddenRows(tbody[s]) # {}

\* C13: after collapse a classless tbody of n > 15 rows shows exactly its first 5
\* and its last 5 original rows and hides every row in between; a tbody with
\* n <= 15 rows, or with a class, is as it was served.
C13_ContextWindow ==
    cpc = "ready" =>
        \A s \in Sections \ expanded :
            LET e == tbody[s]
                n == Cardinality(OrigRows(e))
            IN  IF Len(e.classList) = 0 /\ n > 15
                THEN /\ OrigRows(e) = 0..(n - 1)
                     /\ VisibleRows(e) = (0..4) \cup ((n - 5)..(n - 1))
                     /\ HiddenRows(e) = 5..(n - 6)
                ELSE AsServed(e)

C13_Witness ==
    /\ cpc = "ready"
    /\ expanded = {}
    /\ Cardinality(OrigRows(tbody[1])) = 16
    /\ HiddenRows(tbody[1]) = 5..10
    /\ Cardinality(OrigRows(tbody[2])) = 16
    /\ Len(tbody[2].classList) = 1
    /\ AsServed(tbody[2])

\* C14: after the expand affordance of a collapsed block has been invoked the
\* block consists of exactly its original rows, all with default display.
C14_ExpandIsIdentity ==
    \A s \in expanded : AsServed(tbody[s])

-----------------------------------------------------------------------------
(* file-tree.js: the two tabs of the FileTree, and the show-trace click     *)
(* handler of code-main.js, which is suspended at each of its two awaits.  *)

\* hideTab(btn, tab)
hideTab(t, btn, tab) ==
    [t EXCEPT ![btn] = Remove(@, "selected"), ![tab] = Add(@, "hidden")]

\* hideAllTabs that hides nothing
hideAllTabs_Nothing(t) == t

\* hideAllTabs()
hideAllTabs(t) ==
    hideTab(hideTab(t, "fileTreeTabBtn", "fileTreeTab"), "tracesTabBtn", "tracesTab")

\* showTab(btn, tab)
showTab(t, btn, tab) ==
    [t EXCEPT ![btn] = Add(@, "selected"), ![tab] = Remove(@, "hidden")]

\* showFileTreeTab()
showFileTreeTab(t) == showTab(hideAllTabs(t), "fileTreeTabBtn", "fileTreeTab")

\* showTracesTab()
showTracesTab(t) == showTab(hideAllTabs(t), "tracesTabBtn", "tracesTab")

\* the show-trace buttons of the page, by the id of their tbody
TraceIds == {<<"m1">>, <<"m2">>}

Loading == <<"loading">>

\* the text /api/traces answers for a mutation
TraceText(id) == <<"traces of">> \o id

\* ft.showLoadingTracesTab(): the traces tab is shown ...
showLoadingTracesTab(t) == showTracesTab(t)

\* ... with a loading notice as its content
LoadingTracesTab == Loading

\* ft.setLoadedTracesTab(text): the text is rendered into the traces tab verbatim
setLoadedTracesTab(text) == text

\* click on the file-tree tab button
FileTreeTabClick ==
    /\ tabs' = showFileTreeTab(tabs)
    /\ shown' = "fileTree"
    /\ UNCHANGED <<traces, fetches, requested, nclicks>>
    /\ UNCHANGED nonTabs

\* click on the traces tab button
TracesTabClick ==
    /\ tabs' = showTracesTab(tabs)
    /\ shown' = "traces"
    /\ UNCHANGED <<traces, fetches, requested, nclicks>>
    /\ UNCHANGED nonTabs

\* click on a show-trace button, up to the first await: showLoadingTracesTab()
\* shows the traces tab with a loading notice, then the fetch is issued
ShowTraceClick(id) ==
    /\ nclicks < MaxClicks
    /\ tabs' = showLoadingTracesTab(tabs)
    /\ shown' = "traces"
    /\ traces' = LoadingTracesTab
    /\ fetches' = fetches \cup {[n |-> nclicks + 1, id |-> id, at |-> "fetch"]}
    /\ requested' = id
    /\ nclicks' = nclicks + 1
    /\ UNCHANGED nonTabs

\* the fetch of a suspended handler resolves: the handler goes on to
\* response.text() and is suspended again
FetchResolved(f) ==
    /\ f \in fetches
    /\ f.at = "fetch"
    /\ fetches' = (fetches \ {f}) \cup {[f EXCEPT !.at = "text"]}
    /\ UNCHANGED <<tabs, shown, traces, requested, nclicks>>
    /\ UNCHANGED nonTabs

\* response.text() resolves: setLoadedTracesTab(text) writes the text into the
\* traces tab and the handler ends
TextResolved(f) ==
    /\ f \in fetches
    /\ f.at = "text"
    /\ traces' = setLoadedTracesTab(TraceText(f.id))
    /\ fetches' = fetches \ {f}
    /\ UNCHANGED <<tabs, shown, requested, nclicks>>
    /\ UNCHANGED nonTabs

\* every handler that can be suspended
Handlers == [n : 1..MaxClicks, id : TraceIds, at : {"fetch", "text"}]

ServedTabs ==
    [fileTreeTabBtn : {<<>>, <<"selected">>}, fileTreeTab : {<<>>, <<"hidden">>},
     tracesTabBtn : {<<>>, <<"selected">>}, tracesTab : {<<>>, <<"hidden">>}]

TInit ==
    /\ tabs \in ServedTabs
    /\ shown = "none"
    /\ traces = <<>>
    /\ fetches = {}
    /\ requested = <<>>
    /\ nclicks = 0
    /\ QueryIdle
    /\ DomIdle
    /\ CollapseIdle
    /\ SearchIdle
    /\ TreeIdle

TNext ==
    \/ FileTreeTabClick
    \/ TracesTabClick
    \/ \E id \in TraceIds : ShowTraceClick(id)
    \/ \E f \in Handlers : FetchResolved(f)
    \/ \E f \in Handlers : TextResolved(f)

SpecTabs == TInit /\ [][TNext]_vars

-----------------------------------------------------------------------------
(* file-tree.js: the toggles of the file tree *)

\* the nodes of the file tree: toggle.parentElement.parentElement of each toggle
Nodes == {"n1", "n2", "n3"}

\* fileNodeToggle(fileNodeToggleElement), on the classList of the node
fileNodeToggle(cl) ==
    IF Contains(cl, "expanded") THEN Remove(cl, "expanded") ELSE Add(cl, "expanded")

\* how often FileTree.init() runs when a document loads.  The inspector calls it
\* in the DOMContentLoaded handler of code-main.js.  In mutest-ui/src/assets
\* file-tree.js registers a DOMContentLoaded handler of its own that calls it,
\* and code-main.js, which imports that file, calls it once more.
InitCalls == {1, 2}

\* one click dispatched to n listeners, each calling fileNodeToggle
RECURSIVE Dispatch(_, _)
Dispatch(cl, n) == IF n = 0 THEN cl ELSE Dispatch(fileNodeToggle(cl), n - 1)

\* click on the toggle of node nd
ToggleClick(nd) ==
    /\ nodeCls' = [nodeCls EXCEPT ![nd] = Dispatch(@, listeners)]
    /\ toggles' = IF toggles = <<>> THEN <<[node |-> nd, before |-> nodeCls]>>
                  ELSE <<toggles[Len(toggles)], [node |-> nd, before |-> nodeCls]>>
    /\ UNCHANGED listeners
    /\ UNCHANGED nonTree

ServedNodes == {<<>>, <<"expanded">>, <<"dir">>, <<"expanded", "dir">>}

FInit ==
    /\ nodeCls \in [Nodes -> ServedNodes]
    /\ listeners \in InitCalls
    /\ toggles = <<>>
    /\ QueryIdle
    /\ DomIdle
    /\ CollapseIdle
    /\ SearchIdle
    /\ TabsIdle

FNext == \E nd \in Nodes : ToggleClick(nd)

SpecTree == FInit /\ [][FNext]_vars

RowVisible(i) == ~Contains(rowCls[i], "hidden")

RowFields(i) == {SearchRows[i].path, SearchRows[i].cls, SearchRows[i].t1, SearchRows[i].t2}

\* C15: after search(query, useRegex) has completed, a row is visible if and only
\* if one of its four fields contains query, or useRegex is set and one of them
\* matches query as a regular expression; without useRegex the visible rows are
\* exactly the substring-matching rows.
C15_VisibleIffMatch ==
    (searched # NoSearch /\ ~searched.thrown) =>
        \A i \in 1..Len(SearchRows) :
            /\ RowVisible(i) <=>
                  \E f \in RowFields(i) :
                      \/ Includes(f, searched.query)
                      \/ searched.regex /\ Test(searched.query, f)
            /\ ~searched.regex =>
                  (RowVisible(i) <=> \E f \in RowFields(i) : Includes(f, searched.query))

\* a completed regex search shows row 2 (path "ab") for "a.", which only row 1
\* contains as a substring, and hides row 3, shown before the call
C15_Witness ==
    /\ searched # NoSearch
    /\ ~searched.thrown
    /\ searched.regex
    /\ searched.query = <<"a", ".">>
    /\ RowVisible(1) /\ RowVisible(2) /\ ~RowVisible(3)
    /\ Contains(searched.before[2], "hidden")
    /\ ~Contains(searched.before[3], "hidden")

\* C16: a search that fails with an exception because the query is no valid
\* regular expression leaves every row as hidden or visible as it was.
C16_FailedSearchChangesNothing ==
    (searched # NoSearch /\ searched.thrown) => rowCls = searched.before

PanelVisible(tab) == ~Contains(tabs[tab], "hidden")

BtnSelected(btn) == Contains(tabs[btn], "selected")

\* C17: after any sequence of showFileTreeTab and showTracesTab calls exactly one
\* tab panel is visible, exactly the button of that panel is selected, and it is
\* the tab the last call chose.
C17_OneTabShown ==
    /\ shown = "fileTree" =>
          /\ PanelVisible("fileTreeTab") /\ ~PanelVisible("tracesTab")
          /\ BtnSelected("fileTreeTabBtn") /\ ~BtnSelected("tracesTabBtn")
    /\ shown = "traces" =>
          /\ PanelVisible("tracesTab") /\ ~PanelVisible("fileTreeTab")
          /\ BtnSelected("tracesTabBtn") /\ ~BtnSelected("fileTreeTabBtn")

\* the file-tree tab is shown again after the traces tab had been shown
C17_Witness ==
    /\ shown = "fileTree"
    /\ requested # <<>>
    /\ PanelVisible("fileTreeTab")
    /\ ~PanelVisible("tracesTab")

\* C20: handlers run to completion one after the other, so once no show-trace
\* handler is pending the traces tab holds the text of the most recently
\* requested mutation.
C20_LatestTraceShown ==
    (requested # <<>> /\ fetches = {}) => traces = TraceText(requested)

PanelShown(p) == ~Contains(regionCls[p], "hidden")

\* C18: a click on conflict region r leaves the switcher visible, r the only
\* selected conflict region, and of the region panels exactly the one whose id
\* is r's first class token visible.
C18_RegionClickShowsItsPanel ==
    clicked.kind = "region" =>
        /\ ~Contains(changer, "hidden")
        /\ {e \in Mcrs(page) : Selected(e)} = {clicked.el}
        /\ {p \in DOMAIN regionCls : PanelShown(p)} = {classList[clicked.el][1]}
        /\ ~thrown

\* region a4 is clicked while region a1 is hidden behind an opened mutation
C18_Witness ==
    /\ clicked.kind = "region"
    /\ clicked.el = "a4"
    /\ PanelShown("g2")
    /\ Hidden("a1")

\* C19: a click on a switcher variant whose mutation element is in the document
\* leaves that element the only visible one of those carrying the variant's
\* data-target-class, the selected tbody, and opens no url.
C19_VariantClickOpensInline ==
    (clicked.kind = "variant" /\ GetElementById(clicked.id) # NoElement) =>
        LET el == GetElementById(clicked.id)
        IN /\ {e \in GetElementsByClassName(classList, clicked.target) : ~Hidden(e)} = {el}
           /\ {e \in DOMAIN classList : Selected(e)} = {el}
           /\ opened = <<>>
           /\ pc = "ready"

\* variant m2 is chosen while mutation m3 of the other group stays open
C19_Witness ==
    /\ clicked.kind = "variant"
    /\ clicked.id = <<"m2">>
    /\ ~Hidden("a3")
    /\ ~Hidden("a5")

\* C21: when the element is found but a later step of the try block raises an
\* error, openMutation does what it does on a lookup miss: with autoRedirect it
\* navigates to filePath?mutation_id=<id>, without it only logs, and the error
\* does not reach the caller.
C21_ErrorTakesMissBranch ==
    (Found /\ last.raised) =>
        /\ ~thrown
        /\ last.autoRedirect =>
              opened = <<last.path \o <<"?">> \o MUTATION_ID_ATTR \o <<Eq>> \o last.id>>
        /\ ~last.autoRedirect =>
              (opened = <<>> /\ console = <<<<"error", last.id>>>>)

\* the places of a step in the log of the page-load pass
At(step) == {i \in 1..Len(initLog) : initLog[i] = step}

Before(a, b) == \A i \in At(a), j \in At(b) : i < j

\* C22: in the page-load pass the FileTree and MutationSwitcher listeners are
\* registered first, then the collapser runs (and, in the inspector, reveals the
\* code table), and only then is the query string read; openQueryMutation runs
\* exactly once per page load.
C22_InitOrder ==
    /\ Cardinality(At("openQueryMutation")) <= 1
    /\ pc \in {"ready", "unloading"} => Cardinality(At("openQueryMutation")) = 1
    /\ At("openQueryMutation") # {} =>
          /\ At("FileTree.init") # {} /\ At("MutationSwitcher.init") # {}
          /\ Cardinality(At("collapse")) = 1
          /\ Before("FileTree.init", "collapse")
          /\ Before("MutationSwitcher.init", "collapse")
          /\ Before("collapse", "openQueryMutation")
          /\ variant = "inspector" =>
                (/\ At("show code-table") # {}
                 /\ Before("collapse", "show code-table")
                 /\ Before("show code-table", "openQueryMutation"))

\* a second document, loaded by a navigation, has run its own pass and is in use
C22_Witness ==
    /\ loadedBy.op = "openMutation"
    /\ pc = "ready"
    /\ At("openQueryMutation") # {}
    /\ clicked.kind = "region"

Expanded(cls, nd) == Contains(cls[nd], "expanded")

LastToggle == toggles[Len(toggles)]

\* C23: a click on a toggle flips the expanded state of its node and of no
\* other node, and two consecutive clicks on one toggle restore the state.
C23_ToggleFlipsOnlyItsNode ==
    toggles # <<>> =>
        /\ Expanded(nodeCls, LastToggle.node) # Expanded(LastToggle.before, LastToggle.node)
        /\ \A nd \in Nodes \ {LastToggle.node} : nodeCls[nd] = LastToggle.before[nd]
        /\ (Len(toggles) = 2 /\ toggles[1].node = toggles[2].node) =>
              \A nd \in Nodes : Expanded(nodeCls, nd) = Expanded(toggles[1].before, nd)

\* the same with one listener on each toggle, as FileTree.init of the inspector
\* registers them
C23_OneListener == listeners = 1 => C23_ToggleFlipsOnlyItsNode

\* the first class tokens of the mutation elements of the document
ConflictGroups == {classList[e][1] : e \in {x \in DOMAIN classList : IdOf(x) # <<>>}}

VisibleOf(g) == {e \in GetElementsByClassName(classList, g) : ~Hidden(e)}

\* C24: from a document in which every conflict group has at most one visible
\* member, every state reached by openMutation calls and switcher variant clicks
\* has at most one visible member in every conflict group.
C24_AtMostOneVisible ==
    \A g \in ConflictGroups : Cardinality(VisibleOf(g)) <= 1

\* mutations of two groups are open, the second one opened through the switcher
C24_Witness ==
    /\ clicked.kind = "variant"
    /\ VisibleOf("g1") = {"a2"}
    /\ VisibleOf("g2") = {"a5"}

\* C25: on a lookup miss openMutation leaves the hidden and selected marking of
\* every element as it was when the call was made, whatever autoRedirect is.
C25_MissChangesNoMarking ==
    Missed =>
        \A e \in DOMAIN classList :
            /\ Hidden(e) <=> Contains(last.before[e], "hidden")
            /\ Selected(e) <=> Contains(last.before[e], "selected")

\* a miss with redirection, made while mutation m1 is open and selected
C25_Witness ==
    /\ Missed
    /\ last.autoRedirect
    /\ page = <<"a.html">>
    /\ Selected("a2")
    /\ ~Hidden("a2")

\* C26: a click on a switcher variant whose mutation element is not in the
\* document leaves every code block as hidden or visible as it was before the
\* click.
C26_FailedVariantKeepsBlocks ==
    (clicked.kind = "variant" /\ Missed) =>
        \A e \in DOMAIN classList :
            Hidden(e) <=> Contains(clicked.before[e], "hidden")

\* the conflict regions of the document that are marked selected
SelectedMcrs == {e \in Mcrs(page) : Selected(e)}

SwitcherVisible == ~Contains(changer, "hidden")

\* C27: at most one conflict region is marked selected, a conflict region is
\* marked selected only while the switcher is visible, and after a click on the
\* close button the switcher is hidden and no region is selected.
C27_SelectedRegionOnlyWhileVisible ==
    /\ Cardinality(SelectedMcrs) <= 1
    /\ SelectedMcrs # {} => SwitcherVisible
    /\ clicked.kind = "close" => (~SwitcherVisible /\ SelectedMcrs = {})

\* the close button is clicked while region a4 is selected
C27_Witness ==
    /\ page = <<"a.html">>
    /\ clicked.kind = "close"
    /\ Contains(clicked.before["a4"], "selected")
    /\ ~SwitcherVisible
    /\ SelectedMcrs = {}

====
